---------------------------- MODULE Spec2Model ----------------------------
(***************************************************************************)
(* A model of lox-rs: the scanner (src/src/scanner.rs), the recursive      *)
(* descent parser (src/src/parser.rs), the tree-walking interpreter        *)
(* (src/src/interpreter.rs) and the driver (src/src/main.rs).              *)
(*                                                                         *)
(* A source text is a sequence of characters; a character is a one-element *)
(* string, except EAcute, which stands for a character whose UTF-8         *)
(* encoding takes two bytes.  Rust's String::len and the slice             *)
(* source[a..b] count bytes while chars().nth(i) counts characters; the    *)
(* model keeps the two apart.                                              *)
(*                                                                         *)
(* A panic (unwrap on None, a slice off a character boundary, todo!(),     *)
(* panic!()) is recorded in the field `panicked` of the object that        *)
(* raised it and ends the process.                                         *)
(***************************************************************************)
EXTENDS Integers, Sequences, FiniteSets, TLC

VARIABLES
    pc,          \* where the process stands: main, prompt, scan, parse, parsed, returned, interpret, done,
                 \* or how it ended: exit, exit65, or the panic of one of PanicSites
    mode,        \* how main was started: "prompt" (no argument) or "file" (one argument)
    lox,         \* the Lox object: had_error, and the diagnostics report() has printed for the current source
    scanner,     \* the Scanner object
    parser,      \* the Parser object
    expression,  \* Lox::run's local `expression`, the result of Parser::parse
    printed,     \* what Lox::run handed to AstPrinter.print
    expr,        \* the tree given to Interpreter::interpret
    result       \* the result of Interpreter::evaluate

vars == <<pc, mode, lox, scanner, parser, expression, printed, expr, result>>

-----------------------------------------------------------------------------
(* Bounds of the model.                                                    *)

MaxSrcLen == 3      \* longest source text given to the scanner alone
MaxLineLen == 3     \* longest line or file given to the driver
MaxTokens == 5      \* most tokens before Eof given to the parser alone
MaxNum == 2         \* largest magnitude of a number literal given to the interpreter

-----------------------------------------------------------------------------
(* Option<T>, characters and strings.                                      *)

None == <<>>
Some(x) == <<x>>

\* The value of e, computed once and named r in f: The({f(r) : r \in {e}}).
The(S) == CHOOSE x \in S : TRUE

EAcute == "e-acute"
NUL == "NUL"                    \* the character '\0'
UnwrapNone == "unwrap-on-None"  \* the outcome of a call that panicked, where a character was expected

Utf8Len(c) == IF c = EAcute THEN 2 ELSE 1

RECURSIVE str_len(_)
str_len(src) == IF src = <<>> THEN 0 ELSE Utf8Len(Head(src)) + str_len(Tail(src))

chars_nth(src, n) == IF n < Len(src) THEN Some(src[n + 1]) ELSE None

\* The byte offset at which the k-th character (from 0) starts; k = Len(src) is the end.
ByteOffset(src, k) == str_len(SubSeq(src, 1, k))

is_char_boundary(src, i) == \E k \in 0..Len(src) : ByteOffset(src, k) = i

CharIndex(src, i) == CHOOSE k \in 0..Len(src) : ByteOffset(src, k) = i

\* source[a..b]: panics unless a <= b and both are character boundaries within the string.
str_slice(src, a, b) ==
    IF a <= b /\ is_char_boundary(src, a) /\ is_char_boundary(src, b)
    THEN [ok |-> TRUE, chars |-> SubSeq(src, CharIndex(src, a) + 1, CharIndex(src, b))]
    ELSE [ok |-> FALSE, chars |-> <<>>]

Digits == {"0", "1", "2", "3", "4", "5", "6", "7", "8", "9"}

LowerCase == {"a", "b", "c", "d", "e", "f", "g", "h", "i", "j", "k", "l", "m",
              "n", "o", "p", "q", "r", "s", "t", "u", "v", "w", "x", "y", "z"}

UpperCase == {"A", "B", "C", "D", "E", "F", "G", "H", "I", "J", "K", "L", "M",
              "N", "O", "P", "Q", "R", "S", "T", "U", "V", "W", "X", "Y", "Z"}

-----------------------------------------------------------------------------
(* f64 values, as rationals in lowest terms with a positive denominator.   *)

Abs(i) == IF i < 0 THEN -i ELSE i

RECURSIVE Gcd(_, _)
Gcd(a, b) == IF b = 0 THEN a ELSE Gcd(b, a % b)

Rat(num, den) ==
    LET g == Gcd(Abs(num), Abs(den))
        sgn == IF den < 0 THEN -1 ELSE 1
    IN [num |-> sgn * (num \div g), den |-> sgn * (den \div g)]

F64(i) == [num |-> i, den |-> 1]

f64_neg(a) == [num |-> -a.num, den |-> a.den]
f64_add(a, b) == Rat(a.num * b.den + b.num * a.den, a.den * b.den)
f64_sub(a, b) == Rat(a.num * b.den - b.num * a.den, a.den * b.den)
f64_mul(a, b) == Rat(a.num * b.num, a.den * b.den)
f64_div(a, b) == Rat(a.num * b.den, a.den * b.num)     \* b is not zero
f64_lt(a, b) == a.num * b.den < b.num * a.den

DigitVal(c) ==
    CASE c = "0" -> 0 [] c = "1" -> 1 [] c = "2" -> 2 [] c = "3" -> 3 [] c = "4" -> 4
      [] c = "5" -> 5 [] c = "6" -> 6 [] c = "7" -> 7 [] c = "8" -> 8 [] c = "9" -> 9

RECURSIVE Pow10(_)
Pow10(k) == IF k = 0 THEN 1 ELSE 10 * Pow10(k - 1)

RECURSIVE DigitsVal(_)
DigitsVal(ds) == IF ds = <<>> THEN 0 ELSE 10 * DigitsVal(SubSeq(ds, 1, Len(ds) - 1)) + DigitVal(ds[Len(ds)])

\* A decimal text: digits with at most one '.', and at least one digit.
is_decimal(body) ==
    /\ \A i \in 1..Len(body) : body[i] \in Digits \cup {"."}
    /\ \E i \in 1..Len(body) : body[i] \in Digits
    /\ \A i, j \in 1..Len(body) : (body[i] = "." /\ body[j] = ".") => i = j

\* The value of a decimal text.
decimal_value(body) ==
    LET ds == SelectSeq(body, LAMBDA c : c # ".")
        dot == IF \E i \in 1..Len(body) : body[i] = "."
               THEN CHOOSE i \in 1..Len(body) : body[i] = "."
               ELSE Len(body)
    IN Rat(DigitsVal(ds), Pow10(Len(body) - dot))

\* str::parse::<f64>: Some(value) of an optional sign and a decimal text, None (an Err) of any
\* other text.  The forms with an exponent and the words inf, infinity and nan need the letters
\* e, i, n, f, t, y, which no source of ScanAlphabet or LineAlphabet holds.
parse_f64(text) ==
    LET signed == text # <<>> /\ text[1] \in {"+", "-"}
        body == IF signed THEN Tail(text) ELSE text
    IN IF ~is_decimal(body) THEN None
       ELSE IF signed /\ text[1] = "-" THEN Some(f64_neg(decimal_value(body)))
       ELSE Some(decimal_value(body))

-----------------------------------------------------------------------------
(* token.rs                                                                *)

NoLiteral == [kind |-> "None"]
LiteralIdentifier(text) == [kind |-> "Identifier", s |-> text]
LiteralString(text) == [kind |-> "String", s |-> text]
LiteralNumber(n) == [kind |-> "Number", n |-> n]

Token(token_type, lexeme, literal, line) ==
    [token_type |-> token_type, lexeme |-> lexeme, literal |-> literal, line |-> line]

-----------------------------------------------------------------------------
(* main.rs: the diagnostics of Lox.                                        *)

new_lox == [had_error |-> FALSE, reported |-> <<>>]

\* report, had it printed the diagnostic and left the flag as it was
report_without_flag(l, line, where_in_code, message) ==
    [had_error |-> l.had_error,
     reported |-> Append(l.reported, [line |-> line, where |-> where_in_code, message |-> message])]

report(l, line, where_in_code, message) ==
    [had_error |-> TRUE,
     reported |-> Append(l.reported, [line |-> line, where |-> where_in_code, message |-> message])]

error_lexer(l, line, message) == report(l, line, <<>>, message)

\* where: " at end" for Eof, else "at '<lexeme>'" (the lexeme is kept as it is)
error_parser(l, token, message) ==
    IF token.token_type = "Eof"
    THEN report(l, token.line, <<" at end">>, message)
    ELSE report(l, token.line, <<"at '">> \o token.lexeme \o <<"'">>, message)

-----------------------------------------------------------------------------
(* scanner.rs                                                              *)

\* KEYWORDS.get(text): the token type of a reserved word, or None
KEYWORDS(text) ==
    CASE text = <<"a", "n", "d">> -> Some("And")
      [] text = <<"c", "l", "a", "s", "s">> -> Some("Class")
      [] text = <<"e", "l", "s", "e">> -> Some("Else")
      [] text = <<"f", "a", "l", "s", "e">> -> Some("False")
      [] text = <<"f", "o", "r">> -> Some("For")
      [] text = <<"f", "u", "n">> -> Some("Fun")
      [] text = <<"i", "f">> -> Some("If")
      [] text = <<"n", "i", "l">> -> Some("Nil")
      [] text = <<"o", "r">> -> Some("Or")
      [] text = <<"p", "r", "i", "n", "t">> -> Some("Print")
      [] text = <<"r", "e", "t", "u", "r", "n">> -> Some("Return")
      [] text = <<"s", "u", "p", "e", "r">> -> Some("Super")
      [] text = <<"t", "h", "i", "s">> -> Some("This")
      [] text = <<"t", "r", "u", "e">> -> Some("True")
      [] text = <<"v", "a", "r">> -> Some("Var")
      [] text = <<"w", "h", "i", "l", "e">> -> Some("While")
      [] OTHER -> None

\* Scanner::new, had it started the line counter at 0
new_scanner_line0(source, l) ==
    [lox |-> l, source |-> source, tokens |-> <<>>, start |-> 0, current |-> 0, line |-> 0,
     panicked |-> FALSE]

new_scanner(source, l) ==
    [lox |-> l, source |-> source, tokens |-> <<>>, start |-> 0, current |-> 0, line |-> 1,
     panicked |-> FALSE]

ScannerPanic(s) == [s EXCEPT !.panicked = TRUE]

\* is_at_end, had it held one byte before the end
is_at_end_early(s) == s.current + 1 >= str_len(s.source)

is_at_end(s) == s.current >= str_len(s.source)

is_digit(c) == c \in Digits

is_alphabet(c) == c \in LowerCase \/ c \in UpperCase \/ c = "_"

is_alpha_numeric(c) == is_alphabet(c) \/ is_digit(c)

\* The character peek returns; UnwrapNone when chars().nth(current) is None and unwrap panics.
peek(s) ==
    IF is_at_end(s) THEN NUL
    ELSE IF chars_nth(s.source, s.current) = None THEN UnwrapNone
    ELSE chars_nth(s.source, s.current)[1]

peek_next(s) ==
    IF s.current + 1 >= str_len(s.source) THEN NUL
    ELSE IF chars_nth(s.source, s.current + 1) = None THEN UnwrapNone
    ELSE chars_nth(s.source, s.current + 1)[1]

\* matches: its result, and the scanner it leaves
matches_result(s, expected) ==
    ~is_at_end(s) /\ chars_nth(s.source, s.current) = Some(expected)

matches(s, expected) ==
    IF matches_result(s, expected) THEN [s EXCEPT !.current = @ + 1] ELSE s

\* advance: the scanner it leaves; the character it returns is source.chars().nth(current) of before
advance(s) ==
    IF chars_nth(s.source, s.current) = None THEN ScannerPanic(s)
    ELSE [s EXCEPT !.current = @ + 1]

add_token(s, token_type, literal) ==
    The({IF ~text.ok THEN ScannerPanic(s)
         ELSE [s EXCEPT !.tokens = Append(@, Token(token_type, text.chars, literal, s.line))]
         : text \in {str_slice(s.source, s.start, s.current)}})

add_token_without_literal(s, token_type) == add_token(s, token_type, NoLiteral)

\* while self.peek() != '\n' && !self.is_at_end() { self.advance(); }
RECURSIVE comment(_)
comment(s) ==
    IF peek(s) = UnwrapNone THEN ScannerPanic(s)
    ELSE IF peek(s) # "\n" /\ ~is_at_end(s) THEN The({comment(s1) : s1 \in {advance(s)}})
    ELSE s

\* while self.is_alpha_numeric(self.peek()) { self.advance(); }
RECURSIVE identifier_loop(_)
identifier_loop(s) ==
    IF peek(s) = UnwrapNone THEN ScannerPanic(s)
    ELSE IF is_alpha_numeric(peek(s)) THEN The({identifier_loop(s1) : s1 \in {advance(s)}})
    ELSE s

identifier(s0) ==
    The({The({IF s.panicked THEN s
              ELSE IF ~text.ok THEN ScannerPanic(s)
              ELSE IF KEYWORDS(text.chars) # None
                   THEN add_token_without_literal(s, KEYWORDS(text.chars)[1])
                   ELSE add_token(s, "Literal", LiteralIdentifier(text.chars))
              : text \in {str_slice(s.source, s.start, s.current)}})
         : s \in {identifier_loop(s0)}})

\* while self.is_digit(self.peek()) { self.advance(); }
RECURSIVE digits_loop(_)
digits_loop(s) ==
    IF peek(s) = UnwrapNone THEN ScannerPanic(s)
    ELSE IF is_digit(peek(s)) THEN The({digits_loop(s1) : s1 \in {advance(s)}})
    ELSE s

\* number from `if self.peek() == '.' && self.is_digit(self.peek_next())` to the end of its block
number_fraction(s1) ==
    IF s1.panicked THEN s1
    ELSE IF peek(s1) = "." /\ peek_next(s1) = UnwrapNone THEN ScannerPanic(s1)
    ELSE IF peek(s1) = "." /\ is_digit(peek_next(s1))
         THEN The({digits_loop(s2) : s2 \in {advance(s1)}})
    ELSE s1

number(s0) ==
    The({The({The({IF s2.panicked THEN s2
                   ELSE IF ~text.ok THEN ScannerPanic(s2)
                   ELSE The({IF n = None THEN ScannerPanic(s2)     \* parse().unwrap()
                             ELSE add_token(s2, "Literal", LiteralNumber(n[1]))
                             : n \in {parse_f64(text.chars)}})
                   : text \in {str_slice(s2.source, s2.start, s2.current)}})
              : s2 \in {number_fraction(s1)}})
         : s1 \in {digits_loop(s0)}})

\* while self.peek() != '"' && !self.is_at_end() { if self.peek() == '\n' { line += 1 } advance }
RECURSIVE string_loop(_)
string_loop(s) ==
    IF peek(s) = UnwrapNone THEN ScannerPanic(s)
    ELSE IF peek(s) # "\"" /\ ~is_at_end(s)
         THEN The({string_loop(s1)
                   : s1 \in {advance(IF peek(s) = "\n" THEN [s EXCEPT !.line = @ + 1] ELSE s)}})
         ELSE s

string(s0) ==
    The({The({IF s.panicked THEN s
              ELSE IF is_at_end(s)
                   THEN [s EXCEPT !.lox = error_lexer(s.lox, s.line, "Unterminated string")]
              ELSE IF ~value.ok THEN ScannerPanic(s)
              ELSE The({IF s1.panicked THEN s1 ELSE advance(s1)
                        : s1 \in {add_token(s, "Literal", LiteralString(value.chars))}})
              : value \in {str_slice(s.source, s.start, s.current)}})
         : s \in {string_loop(s0)}})

\* The match of scan_token on c, the character advance returned.
scan_token_match(s, c) ==
    CASE c = "(" -> add_token_without_literal(s, "LeftParen")
       [] c = ")" -> add_token_without_literal(s, "RightParen")
       [] c = "{" -> add_token_without_literal(s, "LeftBrace")
       [] c = "}" -> add_token_without_literal(s, "RightBrace")
       [] c = "," -> add_token_without_literal(s, "Comma")
       [] c = "." -> add_token_without_literal(s, "Dot")
       [] c = "-" -> add_token_without_literal(s, "Minus")
       [] c = "+" -> add_token_without_literal(s, "Plus")
       [] c = ";" -> add_token_without_literal(s, "Semicolon")
       [] c = "*" -> add_token_without_literal(s, "Star")
       [] c = "!" -> add_token_without_literal(matches(s, "="),
                         IF matches_result(s, "=") THEN "BangEqual" ELSE "Bang")
       [] c = "=" -> add_token_without_literal(matches(s, "="),
                         IF matches_result(s, "=") THEN "EqualEqual" ELSE "Equal")
       [] c = "<" -> add_token_without_literal(matches(s, "="),
                         IF matches_result(s, "=") THEN "LessEqual" ELSE "Less")
       [] c = ">" -> add_token_without_literal(matches(s, "="),
                         IF matches_result(s, "=") THEN "GreaterEqual" ELSE "Greater")
       [] c = "/" -> IF matches_result(s, "/") THEN comment(matches(s, "/"))
                     ELSE add_token_without_literal(s, "Slash")
       [] c = " " -> s
       [] c = "\r" -> s
       [] c = "\t" -> s
       [] c = "\n" -> [s EXCEPT !.line = @ + 1]
       [] c = "\"" -> string(s)
       [] OTHER -> IF is_digit(c) THEN number(s)
                   ELSE IF is_alphabet(c) THEN identifier(s)
                   ELSE [s EXCEPT !.lox = error_lexer(s.lox, s.line, "Unexpected character.")]

\* One call of scan_token: advance, then the match on the character it returned.
scan_token(s0) ==
    The({IF s.panicked THEN s
         ELSE The({scan_token_match(s, c) : c \in {chars_nth(s0.source, s0.current)[1]}})
         : s \in {advance(s0)}})

\* The end of scan_tokens, had it put Eof in front of the tokens
scan_tokens_end_eof_first(s) == [s EXCEPT !.tokens = <<Token("Eof", <<>>, NoLiteral, s.line)>> \o @]

\* The end of scan_tokens: push Eof; the tokens it returns are the scanner's.
scan_tokens_end(s) == [s EXCEPT !.tokens = Append(@, Token("Eof", <<>>, NoLiteral, s.line))]

-----------------------------------------------------------------------------
(* expression.rs                                                           *)

LiteralValueNumber(n) == [kind |-> "Number", n |-> n]
LiteralValueString(text) == [kind |-> "String", s |-> text]
LiteralValueTrue == [kind |-> "True"]
LiteralValueFalse == [kind |-> "False"]
LiteralValueNil == [kind |-> "Nil"]

ExprBinary(left, operator, right) ==
    [type |-> "Binary", left |-> left, operator |-> operator, right |-> right]
ExprGrouping(inner) == [type |-> "Grouping", inner |-> inner]
ExprLiteral(value) == [type |-> "Literal", value |-> value]
ExprUnary(operator, right) == [type |-> "Unary", operator |-> operator, right |-> right]

-----------------------------------------------------------------------------
(* parser.rs.  A parsing function returns Ok(expr) or Err("ParseError")    *)
(* together with the parser it leaves; a panic leaves p.panicked set.      *)

new_parser(tokens, l) == [lox |-> l, tokens |-> tokens, current |-> 0, panicked |-> FALSE]

ParseOk(e, p) == [tag |-> "Ok", expr |-> e, p |-> p]
ParseErr(p) == [tag |-> "Err", p |-> p]
ParsePanic(p) == [tag |-> "Panic", p |-> [p EXCEPT !.panicked = TRUE]]

parser_peek(p) == p.tokens[p.current + 1]

parser_is_at_end(p) == parser_peek(p).token_type = "Eof"

check(p, t) == IF parser_is_at_end(p) THEN FALSE ELSE parser_peek(p).token_type = t

previous(p) == p.tokens[p.current]

\* advance: the parser it leaves; the token it returns is previous() of that parser
parser_advance(p) == IF ~parser_is_at_end(p) THEN [p EXCEPT !.current = @ + 1] ELSE p

\* matches_any: its result, and the parser it leaves
matches_any_result(p, types) == \E i \in 1..Len(types) : check(p, types[i])

matches_any(p, types) == IF matches_any_result(p, types) THEN parser_advance(p) ELSE p

\* error: reports through Lox::error_parser; the String it returns is "ParseError"
error(p, token, message) == [p EXCEPT !.lox = error_parser(p.lox, token, message)]

\* consume: the token is returned, or the error is reported and panic!() is raised
consume(p, token_type, message) ==
    IF check(p, token_type) THEN parser_advance(p)
    ELSE [error(p, parser_peek(p), message) EXCEPT !.panicked = TRUE]

RECURSIVE expression_(_), equality(_), equality_loop(_, _), comparison(_), comparison_loop(_, _),
          term(_), term_loop(_, _), factor(_), factor_loop(_, _), unary(_), primary(_)

\* primary from `if self.matches_any(&[&TokenType::LeftParen])` on
primary_group(p1) ==
    IF matches_any_result(p1, <<"LeftParen">>)
    THEN The({IF r.tag # "Ok" THEN r
              ELSE The({IF p2.panicked THEN ParsePanic(p2) ELSE ParseOk(ExprGrouping(r.expr), p2)
                        : p2 \in {consume(r.p, "RightParen", "Expected ')' after expression.")}})
              : r \in {expression_(matches_any(p1, <<"LeftParen">>))}})
    ELSE ParseErr(error(p1, parser_peek(p1), "Expected expression."))

primary(p) ==
    IF matches_any_result(p, <<"False">>)
    THEN ParseOk(ExprLiteral(LiteralValueFalse), matches_any(p, <<"False">>))
    ELSE IF matches_any_result(p, <<"True">>)
    THEN ParseOk(ExprLiteral(LiteralValueTrue), matches_any(p, <<"True">>))
    ELSE IF matches_any_result(p, <<"Nil">>)
    THEN ParseOk(ExprLiteral(LiteralValueNil), matches_any(p, <<"Nil">>))
    ELSE IF matches_any_result(p, <<"Literal">>)
    THEN LET p1 == matches_any(p, <<"Literal">>)
             literal == previous(p1)
         IN CASE literal.literal.kind = "String" ->
                    ParseOk(ExprLiteral(LiteralValueString(literal.literal.s)), p1)
              [] literal.literal.kind = "Number" ->
                    ParseOk(ExprLiteral(LiteralValueNumber(literal.literal.n)), p1)
              [] literal.literal.kind = "None" -> ParsePanic(p1)
              [] OTHER -> primary_group(p1)      \* the arm `_ => {}`: the token stays consumed
    ELSE primary_group(p)

unary(p) ==
    IF matches_any_result(p, <<"Bang", "Minus">>)
    THEN LET p1 == matches_any(p, <<"Bang", "Minus">>)
         IN The({IF r.tag # "Ok" THEN r ELSE ParseOk(ExprUnary(previous(p1), r.expr), r.p)
                 : r \in {unary(p1)}})
    ELSE primary(p)

factor_loop(p, e) ==
    IF matches_any_result(p, <<"Slash", "Star">>)
    THEN LET p1 == matches_any(p, <<"Slash", "Star">>)
         IN The({IF r.tag # "Ok" THEN r ELSE factor_loop(r.p, ExprBinary(e, previous(p1), r.expr))
                 : r \in {unary(p1)}})
    ELSE ParseOk(e, p)

factor(p) == The({IF r.tag # "Ok" THEN r ELSE factor_loop(r.p, r.expr) : r \in {unary(p)}})

\* The loop of term, had it folded to the right: the right operand is a whole term
term_loop_right(p, e) ==
    IF matches_any_result(p, <<"Minus", "Plus">>)
    THEN LET p1 == matches_any(p, <<"Minus", "Plus">>)
         IN The({IF r.tag # "Ok" THEN r ELSE ParseOk(ExprBinary(e, previous(p1), r.expr), r.p)
                 : r \in {term(p1)}})
    ELSE ParseOk(e, p)

term_loop(p, e) ==
    IF matches_any_result(p, <<"Minus", "Plus">>)
    THEN LET p1 == matches_any(p, <<"Minus", "Plus">>)
         IN The({IF r.tag # "Ok" THEN r ELSE term_loop(r.p, ExprBinary(e, previous(p1), r.expr))
                 : r \in {factor(p1)}})
    ELSE ParseOk(e, p)

term(p) == The({IF r.tag # "Ok" THEN r ELSE term_loop(r.p, r.expr) : r \in {factor(p)}})

comparison_loop(p, e) ==
    IF matches_any_result(p, <<"Greater", "GreaterEqual", "Less", "LessEqual">>)
    THEN LET p1 == matches_any(p, <<"Greater", "GreaterEqual", "Less", "LessEqual">>)
         IN The({IF r.tag # "Ok" THEN r ELSE comparison_loop(r.p, ExprBinary(e, previous(p1), r.expr))
                 : r \in {term(p1)}})
    ELSE ParseOk(e, p)

comparison(p) == The({IF r.tag # "Ok" THEN r ELSE comparison_loop(r.p, r.expr) : r \in {term(p)}})

equality_loop(p, e) ==
    IF matches_any_result(p, <<"BangEqual", "EqualEqual">>)
    THEN LET p1 == matches_any(p, <<"BangEqual", "EqualEqual">>)
         IN The({IF r.tag # "Ok" THEN r ELSE equality_loop(r.p, ExprBinary(e, previous(p1), r.expr))
                 : r \in {comparison(p1)}})
    ELSE ParseOk(e, p)

equality(p) == The({IF r.tag # "Ok" THEN r ELSE equality_loop(r.p, r.expr) : r \in {comparison(p)}})

expression_(p) == equality(p)

parse(p) == expression_(p)

-----------------------------------------------------------------------------
(* interpreter.rs.  evaluate returns Ok(LoxValue) or Err(RuntimeError);    *)
(* todo!() and unreachable!() panic.                                       *)

LoxNumber(n) == [kind |-> "Number", n |-> n]
LoxString(text) == [kind |-> "String", s |-> text]
LoxBoolean(b) == [kind |-> "Boolean", b |-> b]
LoxNil == [kind |-> "Nil"]
Todo == [kind |-> "todo!()"]     \* the operator panicked instead of returning a value

RuntimeError(token, message) == [token |-> token, message |-> message]

EvalOk(v) == [tag |-> "Ok", value |-> v]
EvalErr(e) == [tag |-> "Err", error |-> e]
EvalPanic == [tag |-> "Panic"]

is_numerical(v) == v.kind = "Number"

is_string(v) == v.kind = "String"

\* Ok(()) is TRUE, Err(RuntimeError) is FALSE
check_number_operand(operator, operand) == operand.kind = "Number"

check_number_operands(operator, left, right) == left.kind = "Number" /\ right.kind = "Number"

not(v) ==
    IF v.kind = "Boolean" THEN LoxBoolean(~v.b)
    ELSE IF v.kind = "Nil" THEN LoxBoolean(TRUE)
    ELSE LoxBoolean(FALSE)

neg(v) ==
    IF v.kind = "Number" THEN LoxNumber(f64_neg(v.n))
    ELSE IF v.kind = "String" THEN Todo
    ELSE IF v.kind = "Boolean" THEN LoxBoolean(FALSE)
    ELSE Todo

sub(l, r) ==
    IF l.kind = "Number" /\ r.kind = "Number" THEN LoxNumber(f64_sub(l.n, r.n)) ELSE LoxNil

\* Add, had it subtracted
add_subtracting(l, r) ==
    IF l.kind = "Number" /\ r.kind = "Number" THEN LoxNumber(f64_sub(l.n, r.n)) ELSE LoxNil

add(l, r) ==
    IF l.kind = "Number" /\ r.kind = "Number" THEN LoxNumber(f64_add(l.n, r.n)) ELSE LoxNil

\* Div, had it returned Number(0) for a zero divisor
div_zero_is_zero(l, r) ==
    IF l.kind = "Number" /\ r.kind = "Number"
    THEN IF r.n.num = 0 THEN LoxNumber(F64(0)) ELSE LoxNumber(f64_div(l.n, r.n))
    ELSE LoxNil

div(l, r) ==
    IF l.kind = "Number" /\ r.kind = "Number"
    THEN IF r.n.num = 0 THEN LoxNil ELSE LoxNumber(f64_div(l.n, r.n))
    ELSE LoxNil

mul(l, r) ==
    IF l.kind = "Number" /\ r.kind = "Number" THEN LoxNumber(f64_add(l.n, r.n)) ELSE LoxNil

\* PartialOrd on two Numbers
lox_lt(l, r) == f64_lt(l.n, r.n)

\* A value, or the panic of the operator that should have produced it
OkOrPanic(v) == IF v = Todo THEN EvalPanic ELSE EvalOk(v)

visit_literal_expr(e) ==
    CASE e.value.kind = "Number" -> EvalOk(LoxNumber(e.value.n))
      [] e.value.kind = "String" -> EvalOk(LoxString(e.value.s))
      [] e.value.kind = "True" -> EvalOk(LoxBoolean(TRUE))
      [] e.value.kind = "False" -> EvalOk(LoxBoolean(FALSE))
      [] e.value.kind = "Nil" -> EvalOk(LoxNil)

\* visit_unary_expr after `let right = self.evaluate(expression)?`
unary_op(operator, right) ==
    CASE operator.token_type = "Minus" -> OkOrPanic(neg(right))
      [] operator.token_type = "Bang" -> EvalOk(not(right))
      [] OTHER -> EvalPanic

\* visit_binary_expr after left and right are evaluated
binary_op(left, operator, right) ==
    CASE operator.token_type = "Minus" ->
            IF ~check_number_operand(operator, right)
            THEN EvalErr(RuntimeError(operator, "Operand must be number."))
            ELSE EvalOk(sub(left, right))
      [] operator.token_type = "Slash" ->
            IF ~check_number_operands(operator, left, right)
            THEN EvalErr(RuntimeError(operator, "Operands must be numbers."))
            ELSE EvalOk(div(left, right))
      [] operator.token_type = "Star" ->
            IF ~check_number_operands(operator, left, right)
            THEN EvalErr(RuntimeError(operator, "Operands must be numbers."))
            ELSE EvalOk(mul(left, right))
      [] operator.token_type = "Plus" ->
            IF is_numerical(left) /\ is_numerical(right) THEN EvalOk(add(left, right))
            ELSE IF is_string(left) /\ is_string(right) THEN EvalOk(LoxString(left.s \o right.s))
            ELSE EvalErr(RuntimeError(operator, "Operands must be two numbers or two strings."))
      [] operator.token_type = "Greater" ->
            IF ~check_number_operands(operator, left, right)
            THEN EvalErr(RuntimeError(operator, "Operands must be numbers."))
            ELSE EvalOk(LoxBoolean(lox_lt(right, left)))
      [] operator.token_type = "GreaterEqual" ->
            IF ~check_number_operands(operator, left, right)
            THEN EvalErr(RuntimeError(operator, "Operands must be numbers."))
            ELSE EvalOk(LoxBoolean(~lox_lt(left, right)))
      [] operator.token_type = "Less" ->
            IF ~check_number_operands(operator, left, right)
            THEN EvalErr(RuntimeError(operator, "Operands must be numbers."))
            ELSE EvalOk(LoxBoolean(lox_lt(left, right)))
      [] operator.token_type = "LessEqual" ->
            IF ~check_number_operands(operator, left, right)
            THEN EvalErr(RuntimeError(operator, "Operands must be numbers."))
            ELSE EvalOk(LoxBoolean(~lox_lt(right, left)))
      [] operator.token_type = "BangEqual" -> EvalOk(LoxBoolean(left # right))
      [] operator.token_type = "EqualEqual" -> EvalOk(LoxBoolean(left = right))
      [] OTHER -> EvalPanic

RECURSIVE evaluate(_)
evaluate(e) ==
    CASE e.type = "Literal" -> visit_literal_expr(e)
      [] e.type = "Grouping" -> evaluate(e.inner)
      [] e.type = "Unary" ->
            LET right == evaluate(e.right)
            IN IF right.tag # "Ok" THEN right ELSE unary_op(e.operator, right.value)
      [] e.type = "Binary" ->
            LET left == evaluate(e.left)
                right == evaluate(e.right)
            IN IF left.tag # "Ok" THEN left
               ELSE IF right.tag # "Ok" THEN right
               ELSE binary_op(left.value, e.operator, right.value)

-----------------------------------------------------------------------------
(* The inputs.                                                             *)

SeqsUpTo(S, n) == UNION {[1..k -> S] : k \in 0..n}

\* What the scanner alone is given: characters of every class scan_token tells apart.
ScanAlphabet == {"1", "a", "o", "r", "\"", "\n", "@", EAcute, "/", "=", ".", " "}

ScanSources == SeqsUpTo(ScanAlphabet, MaxSrcLen)

\* What the driver reads: a line of the prompt, or the content of the file.
LineAlphabet == {"1", "a", "(", ")", "-", "@"}

Lines == SeqsUpTo(LineAlphabet, MaxLineLen)

\* What the parser alone is given: tokens as the scanner emits them, Eof last.
TokenAlphabet ==
    {Token("Literal", <<"1">>, LiteralNumber(F64(1)), 1),
     Token("Literal", <<"a">>, LiteralIdentifier(<<"a">>), 1),
     Token("LeftParen", <<"(">>, NoLiteral, 1),
     Token("RightParen", <<")">>, NoLiteral, 1),
     Token("Minus", <<"-">>, NoLiteral, 1),
     Token("Star", <<"*">>, NoLiteral, 1),
     Token("EqualEqual", <<"=", "=">>, NoLiteral, 1)}

TokenSeqs == {Append(ts, Token("Eof", <<>>, NoLiteral, 1)) : ts \in SeqsUpTo(TokenAlphabet, MaxTokens)}

\* What the interpreter is given: trees of the shapes the parser builds.
OperatorLexeme(token_type) ==
    CASE token_type = "Minus" -> <<"-">>
      [] token_type = "Slash" -> <<"/">>
      [] token_type = "Star" -> <<"*">>
      [] token_type = "Plus" -> <<"+">>
      [] token_type = "Bang" -> <<"!">>
      [] token_type = "Greater" -> <<">">>
      [] token_type = "GreaterEqual" -> <<">", "=">>
      [] token_type = "Less" -> <<"<">>
      [] token_type = "LessEqual" -> <<"<", "=">>
      [] token_type = "BangEqual" -> <<"!", "=">>
      [] token_type = "EqualEqual" -> <<"=", "=">>

OperatorToken(token_type) == Token(token_type, OperatorLexeme(token_type), NoLiteral, 1)

LiteralExprs ==
    {ExprLiteral(LiteralValueNumber(F64(n))) : n \in 0..MaxNum}
    \cup {ExprLiteral(LiteralValueString(s)) : s \in {<<>>, <<"a">>}}
    \cup {ExprLiteral(LiteralValueTrue), ExprLiteral(LiteralValueFalse), ExprLiteral(LiteralValueNil)}

UnaryOperators == {OperatorToken("Minus"), OperatorToken("Bang")}

BinaryOperators ==
    {OperatorToken(tt) : tt \in {"Minus", "Slash", "Star", "Plus", "Greater", "GreaterEqual",
                                 "Less", "LessEqual", "BangEqual", "EqualEqual"}}

OperandExprs ==
    LiteralExprs
    \cup {ExprUnary(op, e) : op \in UnaryOperators, e \in LiteralExprs}
    \cup {ExprGrouping(e) : e \in LiteralExprs}

EvalExprs ==
    OperandExprs
    \cup {ExprUnary(op, e) : op \in UnaryOperators, e \in OperandExprs}
    \cup {ExprBinary(l, op, r) : l \in OperandExprs, op \in BinaryOperators, r \in OperandExprs}

-----------------------------------------------------------------------------
(* The state before an object exists, and the ways the process panics.     *)

PanicSites == {"panic: Scanner", "panic: Parser", "panic: Lox::run", "panic: Lox::run_file",
               "panic: Interpreter"}

NoScanner == new_scanner(<<>>, new_lox)
NoParser == new_parser(<<>>, new_lox)
NoResult == [tag |-> "None"]

-----------------------------------------------------------------------------
(* main.rs: main, run_file, run_prompt and run.                            *)

\* Lox::run up to Scanner::new: the diagnostics kept are those of this source.
RunBegin(source) ==
    /\ scanner' = new_scanner(source, [lox EXCEPT !.reported = <<>>])
    /\ lox' = [lox EXCEPT !.reported = <<>>]
    /\ pc' = "scan"
    /\ parser' = NoParser
    /\ expression' = NoResult
    /\ printed' = None

\* main with more than one argument: the usage message
MainUsage ==
    /\ pc = "main"
    /\ pc' = "exit"
    /\ UNCHANGED <<mode, lox, scanner, parser, expression, printed, expr, result>>

\* main with one argument: run_file reads the file and runs its content
MainRunFile ==
    /\ pc = "main"
    /\ mode' = "file"
    /\ \E content \in Lines : RunBegin(content)
    /\ UNCHANGED <<expr, result>>

\* run_file: read_to_string(..).expect(..) on a file that cannot be read
MainRunFileUnreadable ==
    /\ pc = "main"
    /\ mode' = "file"
    /\ pc' = "panic: Lox::run_file"
    /\ UNCHANGED <<lox, scanner, parser, expression, printed, expr, result>>

\* main with no argument: run_prompt
MainRunPrompt ==
    /\ pc = "main"
    /\ mode' = "prompt"
    /\ pc' = "prompt"
    /\ UNCHANGED <<lox, scanner, parser, expression, printed, expr, result>>

\* run_prompt: read_line returns Ok(n), n > 0, and the line is run
ReadLine ==
    /\ pc = "prompt"
    /\ \E buffer \in Lines \ {<<>>} : RunBegin(buffer)
    /\ UNCHANGED <<mode, expr, result>>

\* run_prompt: read_line returns Ok(0), the end of input: break
ReadEof ==
    /\ pc = "prompt"
    /\ pc' = "exit"
    /\ UNCHANGED <<mode, lox, scanner, parser, expression, printed, expr, result>>

\* run_prompt: read_line returns Err: the error is printed, break
ReadError ==
    /\ pc = "prompt"
    /\ pc' = "exit"
    /\ UNCHANGED <<mode, lox, scanner, parser, expression, printed, expr, result>>

\* scan_tokens: one turn of its loop
ScanToken ==
    /\ pc = "scan"
    /\ ~is_at_end(scanner)
    /\ scanner' = scan_token([scanner EXCEPT !.start = scanner.current])
    /\ lox' = scanner'.lox
    /\ pc' = IF scanner'.panicked THEN "panic: Scanner" ELSE "scan"
    /\ UNCHANGED <<mode, parser, expression, printed, expr, result>>

\* scan_tokens: the loop is over, Eof is pushed; run goes on to Parser::new
ScanTokensEnd ==
    /\ pc = "scan"
    /\ is_at_end(scanner)
    /\ scanner' = scan_tokens_end(scanner)
    /\ parser' = new_parser(scanner'.tokens, lox)
    /\ pc' = "parse"
    /\ UNCHANGED <<mode, lox, expression, printed, expr, result>>

\* run: parser.parse()
Parse ==
    /\ pc = "parse"
    /\ LET r == parse(parser)
       IN /\ parser' = r.p
          /\ lox' = r.p.lox
          /\ expression' = IF r.tag = "Ok" THEN [tag |-> "Ok", expr |-> r.expr] ELSE [tag |-> r.tag]
          /\ pc' = IF r.p.panicked THEN "panic: Parser" ELSE "parsed"
    /\ UNCHANGED <<mode, scanner, printed, expr, result>>

\* run: `if self.had_error { return; }`, else the tree is unwrapped and printed
RunEnd ==
    /\ pc = "parsed"
    /\ IF lox.had_error
       THEN pc' = "returned" /\ printed' = None
       ELSE IF expression.tag = "Ok"
            THEN pc' = "returned" /\ printed' = Some(expression.expr)
            ELSE pc' = "panic: Lox::run" /\ printed' = None
    /\ UNCHANGED <<mode, lox, scanner, parser, expression, expr, result>>

\* run_prompt after run: the flag is reset and the loop goes on
PromptNext ==
    /\ pc = "returned"
    /\ mode = "prompt"
    /\ lox' = [lox EXCEPT !.had_error = FALSE]
    /\ pc' = "prompt"
    /\ UNCHANGED <<mode, scanner, parser, expression, printed, expr, result>>

\* run_file after run: exit(65) if had_error, else main returns
RunFileEnd ==
    /\ pc = "returned"
    /\ mode = "file"
    /\ pc' = IF lox.had_error THEN "exit65" ELSE "exit"
    /\ UNCHANGED <<mode, lox, scanner, parser, expression, printed, expr, result>>

\* Interpreter::evaluate on the whole tree
Evaluate ==
    /\ pc = "interpret"
    /\ result' = evaluate(expr)
    /\ pc' = IF result'.tag = "Panic" THEN "panic: Interpreter" ELSE "done"
    /\ UNCHANGED <<mode, lox, scanner, parser, expression, printed, expr>>

-----------------------------------------------------------------------------
(* The specifications.                                                     *)

\* The whole program, from main.
Init ==
    /\ pc = "main"
    /\ mode = "none"
    /\ lox = new_lox
    /\ scanner = NoScanner
    /\ parser = NoParser
    /\ expression = NoResult
    /\ printed = None
    /\ expr = ExprLiteral(LiteralValueNil)
    /\ result = NoResult

Next ==
    \/ MainUsage
    \/ MainRunFile
    \/ MainRunFileUnreadable
    \/ MainRunPrompt
    \/ ReadLine
    \/ ReadEof
    \/ ReadError
    \/ ScanToken
    \/ ScanTokensEnd
    \/ Parse
    \/ RunEnd
    \/ PromptNext
    \/ RunFileEnd

Spec == Init /\ [][Next]_vars

\* Scanner::scan_tokens on every source of ScanSources.
InitScan ==
    /\ pc = "scan"
    /\ mode = "none"
    /\ lox = new_lox
    /\ \E source \in ScanSources : scanner = new_scanner(source, new_lox)
    /\ parser = NoParser
    /\ expression = NoResult
    /\ printed = None
    /\ expr = ExprLiteral(LiteralValueNil)
    /\ result = NoResult

NextScan == ScanToken \/ ScanTokensEnd

SpecScan == InitScan /\ [][NextScan]_vars

\* scan_tokens runs on: its loop takes its next turn, and it returns when the loop is over.
SpecScanFair == SpecScan /\ WF_vars(NextScan)

\* Parser::parse on every token sequence of TokenSeqs.
InitParse ==
    /\ pc = "parse"
    /\ mode = "none"
    /\ lox = new_lox
    /\ scanner = NoScanner
    /\ \E tokens \in TokenSeqs : parser = new_parser(tokens, new_lox)
    /\ expression = NoResult
    /\ printed = None
    /\ expr = ExprLiteral(LiteralValueNil)
    /\ result = NoResult

NextParse == Parse

SpecParse == InitParse /\ [][NextParse]_vars

\* Interpreter::evaluate on every tree of EvalExprs.
InitEval ==
    /\ pc = "interpret"
    /\ mode = "none"
    /\ lox = new_lox
    /\ scanner = NoScanner
    /\ parser = NoParser
    /\ expression = NoResult
    /\ printed = None
    /\ expr \in EvalExprs
    /\ result = NoResult

NextEval == Evaluate

SpecEval == InitEval /\ [][NextEval]_vars

-----------------------------------------------------------------------------
(* The interpreter's claims, under SpecEval.                               *)

\* The values of the operands of the tree, once both are evaluated without error or panic.
OperandsEvaluated ==
    /\ pc # "interpret"
    /\ \/ expr.type = "Unary" /\ evaluate(expr.right).tag = "Ok"
       \/ expr.type = "Binary" /\ evaluate(expr.left).tag = "Ok" /\ evaluate(expr.right).tag = "Ok"

RightValue == evaluate(expr.right).value
LeftValue == evaluate(expr.left).value

\* C1: evaluating Unary(-, operand) with an operand value that is not a Number returns a
\* RuntimeError carrying the operator token, never a value (and never a panic).
C1_UnaryMinusNonNumberIsRuntimeError ==
    (/\ OperandsEvaluated
     /\ expr.type = "Unary"
     /\ expr.operator.token_type = "Minus"
     /\ RightValue.kind # "Number")
    => (result.tag = "Err" /\ result.error.token = expr.operator)

\* C2: evaluating Binary(l, op, r) with op one of - / * and l, r or both not a Number returns a
\* RuntimeError carrying the operator token; no value is returned.
C2_ArithmeticNonNumberIsRuntimeError ==
    (/\ OperandsEvaluated
     /\ expr.type = "Binary"
     /\ expr.operator.token_type \in {"Minus", "Slash", "Star"}
     /\ (LeftValue.kind # "Number" \/ RightValue.kind # "Number"))
    => (result.tag = "Err" /\ result.error.token = expr.operator)

\* C3: evaluating Binary(a, *, b) on two Numbers yields Number(a times b).
C3_StarIsProduct ==
    (/\ OperandsEvaluated
     /\ expr.type = "Binary"
     /\ expr.operator.token_type = "Star"
     /\ LeftValue.kind = "Number"
     /\ RightValue.kind = "Number")
    => result = EvalOk(LoxNumber(f64_mul(LeftValue.n, RightValue.n)))

\* C13: evaluating Binary(l, +, r) yields Number(l + r) when both operand values are Numbers,
\* the String of l followed by r when both are Strings, and for every other combination of
\* operand kinds a RuntimeError carrying the + token.
C13_PlusAddsConcatenatesOrFails ==
    (/\ OperandsEvaluated
     /\ expr.type = "Binary"
     /\ expr.operator.token_type = "Plus")
    => IF LeftValue.kind = "Number" /\ RightValue.kind = "Number"
       THEN result = EvalOk(LoxNumber(f64_add(LeftValue.n, RightValue.n)))
       ELSE IF LeftValue.kind = "String" /\ RightValue.kind = "String"
       THEN result = EvalOk(LoxString(LeftValue.s \o RightValue.s))
       ELSE result.tag = "Err" /\ result.error.token = expr.operator

\* A Number plus a String was evaluated and gave a RuntimeError.
C13_NumberPlusStringFailed ==
    /\ OperandsEvaluated
    /\ expr.type = "Binary"
    /\ expr.operator.token_type = "Plus"
    /\ LeftValue.kind = "Number"
    /\ RightValue.kind = "String"
    /\ result.tag = "Err"

\* C14: for every Number a, evaluating Binary(a, /, 0) returns the value Nil, a successful
\* result; for a Number divisor b that is not zero the result is Number(a / b).
C14_DivisionByZeroIsNil ==
    (/\ OperandsEvaluated
     /\ expr.type = "Binary"
     /\ expr.operator.token_type = "Slash"
     /\ LeftValue.kind = "Number"
     /\ RightValue.kind = "Number")
    => IF RightValue.n.num = 0
       THEN result = EvalOk(LoxNil)
       ELSE /\ result.tag = "Ok"
            /\ result.value.kind = "Number"
            /\ f64_mul(result.value.n, RightValue.n) = LeftValue.n

\* A nonzero Number was divided by zero and the result is Nil.
C14_NonZeroDividedByZero ==
    /\ OperandsEvaluated
    /\ expr.type = "Binary"
    /\ expr.operator.token_type = "Slash"
    /\ LeftValue.kind = "Number" /\ LeftValue.n.num # 0
    /\ RightValue.kind = "Number" /\ RightValue.n.num = 0
    /\ result = EvalOk(LoxNil)

-----------------------------------------------------------------------------
(* The scanner's claims, under SpecScan.                                   *)

LastToken(s) == s.tokens[Len(s.tokens)]

\* The last call of scan_token read a terminated string literal of a source of one-byte
\* characters: it began at the quote at `start` and stopped after the next quote.
TerminatedStringScanned ==
    /\ pc = "scan"
    /\ str_len(scanner.source) = Len(scanner.source)
    /\ scanner.start + 1 < scanner.current
    /\ scanner.source[scanner.start + 1] = "\""
    /\ scanner.source[scanner.current] = "\""

\* C4: a terminated string literal gives one Literal token whose String payload is the
\* characters strictly between the two quotes, and the closing quote is consumed.
C4_StringPayloadIsBetweenQuotes ==
    TerminatedStringScanned
    => /\ scanner.tokens # <<>>
       /\ LastToken(scanner).token_type = "Literal"
       /\ LastToken(scanner).literal =
             LiteralString(SubSeq(scanner.source, scanner.start + 2, scanner.current - 1))

\* The characters that start no token.
StartsNoToken(c) ==
    /\ c \notin {"(", ")", "{", "}", ",", ".", "-", "+", ";", "*", "!", "=", "<", ">", "/"}
    /\ c \notin {" ", "\r", "\t", "\n", "\""}
    /\ ~is_digit(c)
    /\ ~is_alphabet(c)

\* The last call of scan_token was given a character that starts no token.
UnexpectedCharacterScanned ==
    /\ scanner.start < Len(scanner.source)
    /\ scanner.current > scanner.start
    /\ StartsNoToken(scanner.source[scanner.start + 1])

\* C7: a character that starts no token, multi-byte ones included, gets one lex error at the
\* current line; once it is reported the scan goes on over the rest of the source, does not
\* abort, and returns tokens ending in Eof.
C7_UnexpectedCharacterIsReportedAndSkipped ==
    /\ (UnexpectedCharacterScanned /\ scanner.current = scanner.start + 1 /\ ~scanner.panicked)
       => /\ scanner.lox.reported # <<>>
          /\ scanner.lox.reported[Len(scanner.lox.reported)] =
                [line |-> scanner.line, where |-> <<>>, message |-> "Unexpected character."]
    /\ (\E i \in 1..Len(scanner.lox.reported) :
            scanner.lox.reported[i].message = "Unexpected character.")
       => /\ ~scanner.panicked
          /\ pc = "parse" => LastToken(scanner).token_type = "Eof"

RECURSIVE Newlines(_)
Newlines(cs) == IF cs = <<>> THEN 0 ELSE (IF Head(cs) = "\n" THEN 1 ELSE 0) + Newlines(Tail(cs))

\* This step of the scanner pushed a Literal token.
EmitsLiteral ==
    /\ Len(scanner'.tokens) = Len(scanner.tokens) + 1
    /\ LastToken(scanner').token_type = "Literal"

\* C10 as stated: the line of every Literal token is the number of newline characters consumed
\* up to and including the token's start, also for a string literal that spans several lines.
C10_LineIsNewlinesUpToStart ==
    [][EmitsLiteral =>
         LastToken(scanner').line = Newlines(SubSeq(scanner'.source, 1, scanner'.start + 1))]_vars

\* C10 amended: lines are counted from 1, and the line of a Literal token is 1 plus the number
\* of newline characters consumed when the token is pushed: for a number or an identifier those
\* before the token's start, for a string literal those up to its closing quote.
C10_LineIsOnePlusNewlinesConsumed ==
    [][EmitsLiteral =>
         /\ LastToken(scanner').line = 1 + Newlines(SubSeq(scanner'.source, 1, scanner'.current))
         /\ LastToken(scanner').literal.kind # "String"
            => LastToken(scanner').line = 1 + Newlines(SubSeq(scanner'.source, 1, scanner'.start))]_vars

\* A string literal that began on line 1 and spans two lines was pushed with line 2.
C10_MultiLineStringPushed ==
    \E i \in 1..Len(scanner.tokens) :
        /\ scanner.tokens[i].literal.kind = "String"
        /\ \E j \in 1..Len(scanner.tokens[i].lexeme) : scanner.tokens[i].lexeme[j] = "\n"
        /\ scanner.source[1] = "\""
        /\ scanner.tokens[i].line = 2

\* scan_tokens has returned: the tokens are the scanner's.
ScanReturned == pc = "parse"

\* This step is a call of scan_token that returned.
ScanTokenReturned == pc = "scan" /\ ~is_at_end(scanner) /\ ~scanner'.panicked

\* C11: every token sequence returned by scan_tokens holds exactly one Eof token, which is its
\* last element, and its line numbers never decrease; the other tokens are in the order of their
\* source positions: a call of scan_token begins where the call before it stopped, moves
\* forward, and only appends, at most one token, whose lexeme is read from where the call began
\* and lies within what the call consumed.
C11_EofLastTokensInSourceOrder ==
    /\ [](ScanReturned =>
            /\ scanner.tokens # <<>>
            /\ \A i \in 1..Len(scanner.tokens) :
                    scanner.tokens[i].token_type = "Eof" <=> i = Len(scanner.tokens)
            /\ \A i \in 1..(Len(scanner.tokens) - 1) :
                    scanner.tokens[i].line <= scanner.tokens[i + 1].line
            /\ str_len(scanner.source) = Len(scanner.source))
    /\ [][(ScanTokenReturned /\ str_len(scanner.source) = Len(scanner.source)) =>
            /\ scanner'.start = scanner.current
            /\ scanner'.current > scanner.current
            /\ scanner'.current <= Len(scanner.source)
            /\ \/ scanner'.tokens = scanner.tokens
               \/ /\ Len(scanner'.tokens) = Len(scanner.tokens) + 1
                  /\ SubSeq(scanner'.tokens, 1, Len(scanner.tokens)) = scanner.tokens
                  /\ scanner'.start + Len(LastToken(scanner').lexeme) <= scanner'.current
                  /\ LastToken(scanner').lexeme =
                        SubSeq(scanner.source, scanner'.start + 1,
                               scanner'.start + Len(LastToken(scanner').lexeme))
                  /\ LastToken(scanner').lexeme # <<>>]_vars

\* scan_tokens returned two tokens of different lines and Eof.
C11_TokensOfTwoLinesReturned ==
    /\ ScanReturned
    /\ Len(scanner.tokens) = 3
    /\ scanner.tokens[1].line < scanner.tokens[2].line

\* The source is made of single-byte characters.
SingleByteSource == str_len(scanner.source) = Len(scanner.source)

\* C16: for every source text made of single-byte characters scan_tokens terminates: every call
\* of scan_token moves the cursor forward by at least one character, the cursor never moves
\* past the end of the source (and no call panics), and the scan ends with the cursor equal to
\* the source length.
C16_ScanOfSingleByteSourceTerminates ==
    /\ [](SingleByteSource =>
            /\ scanner.current <= Len(scanner.source)
            /\ ~scanner.panicked
            /\ ScanReturned => scanner.current = Len(scanner.source))
    /\ [][(SingleByteSource /\ pc = "scan" /\ ~is_at_end(scanner))
            => scanner'.current >= scanner.current + 1]_vars
    /\ [](SingleByteSource => <>(ScanReturned /\ scanner.current = Len(scanner.source)))

\* The scan of a single-byte source of three characters or more has ended after more than one
\* call of scan_token.
C16_ScanOfSingleByteSourceEnded ==
    /\ ScanReturned
    /\ SingleByteSource
    /\ Len(scanner.source) >= 3
    /\ scanner.start > 0
    /\ scanner.current = Len(scanner.source)

-----------------------------------------------------------------------------
(* The parser's claims, under SpecParse.                                   *)

Reported(message) == \E i \in 1..Len(lox.reported) : lox.reported[i].message = message

\* C5: when '(' and an expression are parsed and the next token is not ')', the error is
\* reported at that token, the had-error flag is set, and parse returns a failure to its caller.
C5_MissingParenReturnsFailure ==
    (pc # "parse" /\ Reported("Expected ')' after expression."))
    => /\ lox.had_error
       /\ lox.reported[Len(lox.reported)] =
             error_parser(new_lox, parser_peek(parser), "Expected ')' after expression.").reported[1]
       /\ pc = "parsed"
       /\ expression.tag = "Err"

\* The token is none of primary's alternatives (nor a prefix operator of unary).
NotPrimary(token) ==
    /\ token.token_type \notin {"False", "True", "Nil", "LeftParen", "Bang", "Minus"}
    /\ ~(token.token_type = "Literal" /\ token.literal.kind \in {"Number", "String"})

\* C6: when primary is entered at a token that matches none of its alternatives (here the first
\* token, where parse enters primary at once), the error is reported at that very token and
\* parse returns a failure.
C6_NoAlternativeIsReportedAtTheToken ==
    (pc # "parse" /\ NotPrimary(parser.tokens[1]))
    => /\ expression.tag = "Err"
       /\ lox.reported =
             error_parser(new_lox, parser.tokens[1], "Expected expression.").reported

\* The levels of the precedence ladder, from the loosest: equality 1, comparison 2, term 3,
\* factor 4, unary 5, primary 6.
BinaryLevel(token_type) ==
    CASE token_type \in {"BangEqual", "EqualEqual"} -> 1
      [] token_type \in {"Greater", "GreaterEqual", "Less", "LessEqual"} -> 2
      [] token_type \in {"Minus", "Plus"} -> 3
      [] token_type \in {"Slash", "Star"} -> 4
      [] OTHER -> 0

\* The well-formed expressions of n tokens of TokenAlphabet, each with the tree the ladder gives
\* it and the level of that tree: a literal or a parenthesised expression is a primary; a prefix
\* operator takes a unary or a primary; a binary operator takes on its left an expression of its
\* own level or a tighter one, and on its right an expression of a tighter level.
RECURSIVE WellFormed(_)
WellFormed(n) ==
    LET literals ==
            {[tokens |-> <<t>>, expr |-> ExprLiteral(LiteralValueNumber(t.literal.n)), level |-> 6]
               : t \in {t \in TokenAlphabet : t.token_type = "Literal" /\ t.literal.kind = "Number"}}
        groupings ==
            {[tokens |-> <<lp>> \o w.tokens \o <<rp>>, expr |-> ExprGrouping(w.expr), level |-> 6]
               : lp \in {t \in TokenAlphabet : t.token_type = "LeftParen"},
                 rp \in {t \in TokenAlphabet : t.token_type = "RightParen"},
                 w \in WellFormed(n - 2)}
        unaries ==
            {[tokens |-> <<op>> \o w.tokens, expr |-> ExprUnary(op, w.expr), level |-> 5]
               : op \in {t \in TokenAlphabet : t.token_type \in {"Bang", "Minus"}},
                 w \in {w \in WellFormed(n - 1) : w.level >= 5}}
        binaries ==
            UNION {{[tokens |-> l.tokens \o <<op>> \o r.tokens,
                     expr |-> ExprBinary(l.expr, op, r.expr),
                     level |-> BinaryLevel(op.token_type)]
                      : l \in {l \in WellFormed(i) : l.level >= BinaryLevel(op.token_type)},
                        r \in {r \in WellFormed(n - 1 - i) : r.level > BinaryLevel(op.token_type)}}
                   : i \in 1..(n - 2),
                     op \in {t \in TokenAlphabet : BinaryLevel(t.token_type) > 0}}
    IN IF n <= 0 THEN {}
       ELSE IF n = 1 THEN literals
       ELSE groupings \cup unaries \cup binaries

\* The well-formed expressions by their number of tokens.
WellFormedBySize == [n \in 0..MaxTokens |-> WellFormed(n)]

\* The tokens the parser was given, without the final Eof.
TokensBeforeEof == SubSeq(parser.tokens, 1, Len(parser.tokens) - 1)

\* A token that is a number or string literal, and the tree primary makes of it.
IsOperandToken(t) == t.token_type = "Literal" /\ t.literal.kind = "Number"
OperandExpr(t) == ExprLiteral(LiteralValueNumber(t.literal.n))

\* C12: for every token sequence that forms a well-formed expression, parse returns the tree of
\* the precedence ladder equality < comparison < term < factor < unary < primary, and reports
\* nothing; in particular a op1 b op2 c with both operators on one binary level gives
\* Binary(Binary(a, op1, b), op2, c).
C12_ParseBuildsLadderTree ==
    (pc # "parse") =>
        LET ts == TokensBeforeEof
        IN /\ \A w \in WellFormedBySize[Len(ts)] :
                  w.tokens = ts => (/\ expression = [tag |-> "Ok", expr |-> w.expr]
                                    /\ lox.reported = <<>>)
           /\ (/\ Len(ts) = 5
               /\ IsOperandToken(ts[1]) /\ IsOperandToken(ts[3]) /\ IsOperandToken(ts[5])
               /\ BinaryLevel(ts[2].token_type) > 0
               /\ BinaryLevel(ts[2].token_type) = BinaryLevel(ts[4].token_type))
              => expression =
                    [tag |-> "Ok",
                     expr |-> ExprBinary(ExprBinary(OperandExpr(ts[1]), ts[2], OperandExpr(ts[3])),
                                         ts[4], OperandExpr(ts[5]))]

\* parse was given a run of two operators of one level, 1 - 1 - 1, and returned.
C12_RunOfOneLevelParsed ==
    /\ pc = "parsed"
    /\ Len(parser.tokens) = 6
    /\ \A i \in {1, 3, 5} : IsOperandToken(parser.tokens[i])
    /\ \A i \in {2, 4} : parser.tokens[i].token_type = "Minus"
    /\ expression.tag = "Ok"

\* C15: whenever parse returns a tree and no parse error was reported, the parser's cursor
\* stands on the Eof token: every token before Eof was consumed into the tree, none is left
\* unread and unreported.
C15_ParsedTreeConsumesAllTokens ==
    (pc = "parsed" /\ expression.tag = "Ok" /\ lox.reported = <<>>)
    => /\ parser_peek(parser).token_type = "Eof"
       /\ parser.current = Len(parser.tokens) - 1

-----------------------------------------------------------------------------
(* The driver's claims, under Spec.                                        *)

\* C8: run hands the tree to the printer only if no lex or parse error was reported for the
\* source; a failed parse has set had_error, so run never unwraps a failed parse result.
C8_PrintedOnlyWithoutError ==
    /\ printed # None
       => (lox.reported = <<>> /\ expression.tag = "Ok" /\ printed = Some(expression.expr))
    /\ (pc = "parsed" /\ expression.tag = "Err") => lox.had_error
    /\ pc # "panic: Lox::run"

\* run returned from a failed parse without printing.
C8_FailedParseReturned ==
    pc = "returned" /\ expression.tag = "Err" /\ lox.had_error /\ printed = None

\* C9: in the interactive loop the flag is false again after every line, the loop goes on to
\* the next line, and the session ends only on end of input or a read error.
C9_PromptLoopGoesOn ==
    mode = "prompt"
    => /\ pc = "prompt" => ~lox.had_error
       /\ pc \notin PanicSites

=============================================================================
